---- MODULE Spec2Model ----
(***************************************************************************)
(* Model of aeco-patch-configurator-gui/src/main.rs: the PatchConfigApp    *)
(* struct, its update() tick on the GUI thread, and the worker threads it  *)
(* spawns to run generate_config and report back over an mpsc channel.     *)
(*                                                                         *)
(* Strings are TLA+ strings; format!/push are modelled by concatenation.   *)
(* The GUI thread runs update() as a sequence of steps (pc); the steps of  *)
(* a worker thread interleave with them.                                   *)
(***************************************************************************)
EXTENDS Naturals, Sequences, FiniteSets, TLC

VARIABLES
    patch_folder,         \* PatchConfigApp.patch_folder
    patch_output_folder,  \* PatchConfigApp.patch_output_folder
    state_message,        \* PatchConfigApp.state_message
    worker_rx,            \* PatchConfigApp.worker_rx: None or the id of a channel
    needs_repaint,        \* PatchConfigApp.needs_repaint
    pc,                   \* position of the GUI thread inside update()
    repaint_requested,    \* ctx.request_repaint() was called in this update()
    generate_clicked,     \* ui.button("Generate").clicked() in this update()
    message_received,     \* rx.try_recv() returned Ok(message) in this update()
    triggers,             \* clicks on Generate so far, counted up to MaxTasks
    threads,              \* the threads spawned so far, in spawn order
    channels              \* the mpsc channels created so far, in creation order

vars == <<patch_folder, patch_output_folder, state_message, worker_rx,
          needs_repaint, pc, repaint_requested, generate_clicked,
          message_received, triggers, threads, channels>>

app == <<patch_folder, patch_output_folder, state_message, worker_rx, needs_repaint>>

-----------------------------------------------------------------------------
(* Bounds *)

\* Number of worker threads that may be spawned in one run of the model.
MaxTasks == 2

\* What the user can type into, or pick for, the two folder fields.
FolderInputs == {"", "in"}
OutputFolderInputs == {"", "out", "out/", "/o"}

-----------------------------------------------------------------------------
(* Strings and paths *)

\* str::contains
Contains(s, sub) ==
    \E i \in 1..(Len(s) + 1) :
        /\ i + Len(sub) - 1 <= Len(s)
        /\ SubSeq(s, i, i + Len(sub) - 1) = sub

\* Path::is_absolute (Unix)
IsAbsolute(p) == Len(p) > 0 /\ SubSeq(p, 1, 1) = "/"

\* PathBuf::push (Unix): an absolute component replaces the path; otherwise a
\* separator is inserted unless the path is empty or already ends in one.
PathPush(self, p) ==
    LET need_sep == Len(self) > 0 /\ SubSeq(self, Len(self), Len(self)) # "/"
    IN  IF IsAbsolute(p) THEN p
        ELSE IF need_sep THEN self \o "/" \o p
        ELSE self \o p

\* Path::components (Unix): the names between separators, empty ones skipped
RECURSIVE Components(_)
Components(p) ==
    IF Len(p) = 0 THEN <<>>
    ELSE LET seps == {i \in 1..Len(p) : SubSeq(p, i, i) = "/"}
             n == IF seps = {} THEN Len(p) + 1
                  ELSE CHOOSE i \in seps : \A j \in seps : i <= j
             head == IF n = 1 THEN <<>> ELSE <<SubSeq(p, 1, n - 1)>>
             rest == IF n >= Len(p) THEN "" ELSE SubSeq(p, n + 1, Len(p))
         IN  head \o Components(rest)

\* PathBuf::new()
PathBufNew == ""

-----------------------------------------------------------------------------
(* The external operation aeco_patch_config::generate_config *)

\* aeco_patch_config::error::PatchConfigError
PatchConfigError == {"DiskFull", "NotADirectory"}

\* <PatchConfigError as Display>::to_string
to_string(why) ==
    CASE why = "DiskFull"      -> "disk full"
      [] why = "NotADirectory" -> "not a directory"

\* Result<(), PatchConfigError>
Ok == [ok |-> TRUE]
Err(why) == [ok |-> FALSE, why |-> why]
GenerateConfigResults == {Ok} \cup {Err(why) : why \in PatchConfigError}

\* a thread local that holds no value (not yet computed, or moved out)
NoValue == [ok |-> FALSE, why |-> "none"]

-----------------------------------------------------------------------------
(* enum MessageToGUI *)

Complete == [tag |-> "Complete"]
Error(why) == [tag |-> "Error", why |-> why]
MessageToGUI == {Complete} \cup {Error(why) : why \in PatchConfigError}

\* Option::None
None == 0

-----------------------------------------------------------------------------
(* std::sync::mpsc *)

\* channel::<MessageToGUI>(): both ends alive, nothing buffered. sent and
\* received count the successful send and try_recv calls on the channel.
NewChannel ==
    [queue |-> <<>>, tx_alive |-> TRUE, rx_alive |-> TRUE, sent |-> 0, received |-> 0]

\* Receiver::try_recv: a buffered message wins over disconnection.
TryRecv(ch) ==
    IF Len(ch.queue) > 0 THEN "Ok"
    ELSE IF ch.tx_alive THEN "Empty"
    ELSE "Disconnected"

\* Sender::send succeeds exactly while the receiver is alive.
SendOk(ch) == ch.rx_alive

\* the channel after a successful send
Sent(ch, message) ==
    [ch EXCEPT !.queue = Append(@, message), !.sent = @ + 1]

\* the channel after its Sender is dropped; with both ends gone the buffer is freed
DropTx(ch) ==
    [ch EXCEPT !.tx_alive = FALSE, !.queue = IF ch.rx_alive THEN @ ELSE <<>>]

\* the channel after its Receiver is dropped: what is buffered is freed with it
DropRx(ch) ==
    [ch EXCEPT !.rx_alive = FALSE, !.queue = <<>>]

-----------------------------------------------------------------------------
(* PatchConfigApp *)

TypeOK ==
    /\ patch_folder \in FolderInputs
    /\ patch_output_folder \in OutputFolderInputs
    /\ state_message \in STRING
    /\ worker_rx \in {None} \cup (1..Len(channels))
    /\ needs_repaint \in BOOLEAN
    /\ repaint_requested \in BOOLEAN
    /\ generate_clicked \in BOOLEAN
    /\ message_received \in BOOLEAN
    /\ triggers \in 0..MaxTasks
    /\ pc \in {"check_config_worker", "repaint", "generate_button",
               "patch_folder_edit", "patch_folder_browse",
               "patch_output_folder_edit", "patch_output_folder_browse",
               "closed"}
    /\ Len(threads) <= MaxTasks
    /\ Len(channels) <= MaxTasks
    /\ \A t \in 1..Len(threads) :
          /\ threads[t].pc \in {"generate", "send", "done", "panicked"}
          /\ threads[t].tx \in 1..Len(channels)
          /\ threads[t].result \in GenerateConfigResults \cup {NoValue}
    /\ \A c \in 1..Len(channels) :
          /\ channels[c].tx_alive \in BOOLEAN
          /\ channels[c].rx_alive \in BOOLEAN
          /\ \A i \in 1..Len(channels[c].queue) : channels[c].queue[i] \in MessageToGUI

\* PatchConfigApp::new, and the first update() about to run
Init ==
    /\ patch_folder = ""
    /\ patch_output_folder = ""
    /\ state_message = ""
    /\ worker_rx = None
    /\ needs_repaint = FALSE
    /\ pc = "check_config_worker"
    /\ repaint_requested = FALSE
    /\ generate_clicked = FALSE
    /\ message_received = FALSE
    /\ triggers = 0
    /\ threads = <<>>
    /\ channels = <<>>

\* Variant: the message is stored without asking for a repaint.
set_message_no_repaint(message) ==
    /\ state_message' = message
    /\ UNCHANGED needs_repaint

\* PatchConfigApp::set_message
set_message(message) ==
    /\ state_message' = message
    /\ needs_repaint' = TRUE

\* the thread spawned by start_config_worker, about to call generate_config
SpawnedThread(input_dir, output_dir, tx) ==
    [pc |-> "generate", input_dir |-> input_dir, output_dir |-> output_dir,
     result |-> NoValue, tx |-> tx]

\* Variant: the Receiver is not stored in worker_rx and is dropped on return.
start_config_worker_no_store(input_dir, output_dir) ==
    IF worker_rx # None
    THEN UNCHANGED <<state_message, needs_repaint, worker_rx, threads, channels>>
    ELSE LET c == Len(channels) + 1
         IN  /\ set_message("Working...")
             /\ channels' = Append(channels, DropRx(NewChannel))
             /\ UNCHANGED worker_rx
             /\ threads' = Append(threads, SpawnedThread(input_dir, output_dir, c))

\* PatchConfigApp::start_config_worker
start_config_worker(input_dir, output_dir) ==
    IF worker_rx # None
    THEN UNCHANGED <<state_message, needs_repaint, worker_rx, threads, channels>>
    ELSE LET c == Len(channels) + 1
         IN  /\ set_message("Working...")
             /\ channels' = Append(channels, NewChannel)
             /\ worker_rx' = c
             /\ threads' = Append(threads, SpawnedThread(input_dir, output_dir, c))

\* check_config_worker returns early: nothing to read (lines 80 and 83)
NoMessage ==
    /\ message_received' = FALSE
    /\ UNCHANGED <<state_message, needs_repaint, worker_rx, channels>>

\* Variant: a failure is reported without the text of the error.
ReceiveMessage_no_detail(message) ==
    /\ IF message.tag = "Complete"
       THEN set_message("Finished!")
       ELSE set_message("Failled to generate output")
    /\ message_received' = TRUE
    /\ worker_rx' = None
    /\ channels' = [channels EXCEPT ![worker_rx] =
            DropRx([@ EXCEPT !.queue = Tail(@), !.received = @ + 1])]

\* check_config_worker after try_recv returned Ok(message): report it and
\* drop the Receiver
ReceiveMessage(message) ==
    /\ IF message.tag = "Complete"
       THEN set_message("Finished!")
       ELSE set_message("Failled to generate output: " \o to_string(message.why))
    /\ message_received' = TRUE
    /\ worker_rx' = None
    /\ channels' = [channels EXCEPT ![worker_rx] =
            DropRx([@ EXCEPT !.queue = Tail(@), !.received = @ + 1])]

\* Variant: a failed task is started again by the poll that reports it.
check_config_worker_retries ==
    /\ pc = "check_config_worker"
    /\ pc' = "repaint"
    /\ repaint_requested' = FALSE
    /\ UNCHANGED <<patch_folder, patch_output_folder, generate_clicked, triggers>>
    /\ IF worker_rx = None THEN NoMessage /\ UNCHANGED threads
       ELSE IF TryRecv(channels[worker_rx]) # "Ok" THEN NoMessage /\ UNCHANGED threads
       ELSE IF Head(channels[worker_rx].queue).tag = "Complete"
       THEN ReceiveMessage(Head(channels[worker_rx].queue)) /\ UNCHANGED threads
       ELSE LET c == Len(channels) + 1
                output_dir == PathPush(PathPush(PathBufNew, patch_output_folder),
                                       "aeco-patch")
            IN  /\ set_message("Working...")
                /\ message_received' = TRUE
                /\ worker_rx' = c
                /\ channels' = Append([channels EXCEPT ![worker_rx] =
                        DropRx([@ EXCEPT !.queue = Tail(@), !.received = @ + 1])],
                        NewChannel)
                /\ threads' = Append(threads, SpawnedThread(patch_folder, output_dir, c))

\* Variant: the Receiver is kept after the message was reported.
check_config_worker_keeps_rx ==
    /\ pc = "check_config_worker"
    /\ pc' = "repaint"
    /\ repaint_requested' = FALSE
    /\ UNCHANGED <<patch_folder, patch_output_folder, generate_clicked,
                   triggers, threads>>
    /\ IF worker_rx = None THEN NoMessage
       ELSE IF TryRecv(channels[worker_rx]) # "Ok" THEN NoMessage
       ELSE /\ set_message("Finished!")
            /\ message_received' = TRUE
            /\ UNCHANGED worker_rx
            /\ channels' = [channels EXCEPT ![worker_rx] =
                    [@ EXCEPT !.queue = Tail(@), !.received = @ + 1]]

\* Variant: an idle check clears the status line.
check_config_worker_clears_idle ==
    /\ pc = "check_config_worker"
    /\ pc' = "repaint"
    /\ repaint_requested' = FALSE
    /\ UNCHANGED <<patch_folder, patch_output_folder, generate_clicked,
                   triggers, threads>>
    /\ IF worker_rx = None
       THEN /\ set_message("")
            /\ message_received' = FALSE
            /\ UNCHANGED <<worker_rx, channels>>
       ELSE IF TryRecv(channels[worker_rx]) # "Ok" THEN NoMessage
       ELSE ReceiveMessage(Head(channels[worker_rx].queue))

\* Variant: recv() in place of try_recv(): the GUI thread waits for the worker.
check_config_worker_recv ==
    /\ pc = "check_config_worker"
    /\ pc' = "repaint"
    /\ repaint_requested' = FALSE
    /\ UNCHANGED <<patch_folder, patch_output_folder, generate_clicked,
                   triggers, threads>>
    /\ IF worker_rx = None THEN NoMessage
       ELSE /\ TryRecv(channels[worker_rx]) # "Empty"
            /\ IF TryRecv(channels[worker_rx]) # "Ok" THEN NoMessage
               ELSE ReceiveMessage(Head(channels[worker_rx].queue))

\* PatchConfigApp::check_config_worker, the first step of update()
check_config_worker ==
    /\ pc = "check_config_worker"
    /\ pc' = "repaint"
    /\ repaint_requested' = FALSE
    /\ UNCHANGED <<patch_folder, patch_output_folder, generate_clicked,
                   triggers, threads>>
    /\ IF worker_rx = None THEN NoMessage
       ELSE IF TryRecv(channels[worker_rx]) # "Ok" THEN NoMessage
       ELSE ReceiveMessage(Head(channels[worker_rx].queue))

\* update(): request a repaint if one is pending
repaint ==
    /\ pc = "repaint"
    /\ pc' = "generate_button"
    /\ repaint_requested' = needs_repaint
    /\ needs_repaint' = FALSE
    /\ UNCHANGED <<patch_folder, patch_output_folder, state_message, worker_rx,
                   generate_clicked,
                   message_received, triggers, threads, channels>>

\* Variant: no check of worker_rx before spawning; a Receiver already held is kept.
generate_button_unguarded(clicked) ==
    /\ pc = "generate_button"
    /\ pc' = "patch_folder_edit"
    /\ generate_clicked' = clicked
    /\ triggers' = IF clicked /\ triggers < MaxTasks THEN triggers + 1 ELSE triggers
    /\ UNCHANGED <<patch_folder, patch_output_folder, repaint_requested,
                   message_received>>
    /\ IF ~clicked
       THEN UNCHANGED <<state_message, needs_repaint, worker_rx, threads, channels>>
       ELSE LET output_dir == PathPush(PathPush(PathBufNew, patch_output_folder),
                                       "aeco-patch")
                c == Len(channels) + 1
            IN  /\ set_message("Working...")
                /\ channels' = Append(channels, NewChannel)
                /\ worker_rx' = IF worker_rx = None THEN c ELSE worker_rx
                /\ threads' = Append(threads, SpawnedThread(patch_folder, output_dir, c))

\* Variant: the output folder is passed on as it is, without the subdirectory.
generate_button_no_subdir(clicked) ==
    /\ pc = "generate_button"
    /\ pc' = "patch_folder_edit"
    /\ generate_clicked' = clicked
    /\ triggers' = IF clicked /\ triggers < MaxTasks THEN triggers + 1 ELSE triggers
    /\ UNCHANGED <<patch_folder, patch_output_folder, repaint_requested,
                   message_received>>
    /\ IF ~clicked
       THEN UNCHANGED <<state_message, needs_repaint, worker_rx, threads, channels>>
       ELSE IF worker_rx = None
            THEN LET output_dir == PathPush(PathBufNew, patch_output_folder)
                     input_dir == patch_folder
                 IN  start_config_worker(input_dir, output_dir)
            ELSE /\ set_message("Generation already in progress.")
                 /\ UNCHANGED <<worker_rx, threads, channels>>

\* PatchConfigApp::generate_button
generate_button(clicked) ==
    /\ pc = "generate_button"
    /\ pc' = "patch_folder_edit"
    /\ generate_clicked' = clicked
    /\ triggers' = IF clicked /\ triggers < MaxTasks THEN triggers + 1 ELSE triggers
    /\ UNCHANGED <<patch_folder, patch_output_folder, repaint_requested,
                   message_received>>
    /\ IF ~clicked
       THEN UNCHANGED <<state_message, needs_repaint, worker_rx, threads, channels>>
       ELSE IF worker_rx = None
            THEN LET output_dir == PathPush(PathPush(PathBufNew, patch_output_folder),
                                            "aeco-patch")
                     input_dir == patch_folder
                 IN  start_config_worker(input_dir, output_dir)
            ELSE /\ set_message("Generation already in progress.")
                 /\ UNCHANGED <<worker_rx, threads, channels>>

\* Variant: the running worker reads the text field itself, not a copy of it.
patch_folder_edit_shared(text) ==
    /\ pc = "patch_folder_edit"
    /\ pc' = "patch_folder_browse"
    /\ patch_folder' = text
    /\ threads' = [t \in 1..Len(threads) |->
            IF threads[t].pc = "generate"
            THEN [threads[t] EXCEPT !.input_dir = text]
            ELSE threads[t]]
    /\ UNCHANGED <<patch_output_folder, state_message, worker_rx, needs_repaint,
                   repaint_requested, generate_clicked,
                   message_received, triggers, channels>>

\* the text_edit_singleline bound to patch_folder: the user leaves it or retypes it
patch_folder_edit(text) ==
    /\ pc = "patch_folder_edit"
    /\ pc' = "patch_folder_browse"
    /\ patch_folder' = text
    /\ UNCHANGED <<patch_output_folder, state_message, worker_rx, needs_repaint,
                   repaint_requested, generate_clicked,
                   message_received, triggers, threads, channels>>

\* Outcomes of FileDialog::pick_folder followed by Path::to_str:
\* the dialog is cancelled, the path is not valid UTF-8, or it is a string.
Cancelled == [picked |-> FALSE]
NotUtf8 == [picked |-> TRUE, utf8 |-> FALSE]
Picked(path_str) == [picked |-> TRUE, utf8 |-> TRUE, path_str |-> path_str]
PickFolder(inputs) == {Cancelled, NotUtf8} \cup {Picked(s) : s \in inputs}

\* PatchConfigApp::browse_patch_folder_button
browse_patch_folder_button(clicked, pick) ==
    /\ pc = "patch_folder_browse"
    /\ pc' = "patch_output_folder_edit"
    /\ UNCHANGED <<patch_output_folder, worker_rx, repaint_requested, generate_clicked,
                   message_received, triggers,
                   threads, channels>>
    /\ IF ~clicked \/ ~pick.picked
       THEN UNCHANGED <<patch_folder, state_message, needs_repaint>>
       ELSE IF ~pick.utf8
            THEN /\ set_message("Selected path could not be converted to a string.")
                 /\ UNCHANGED patch_folder
            ELSE /\ patch_folder' = pick.path_str
                 /\ UNCHANGED <<state_message, needs_repaint>>

\* the text_edit_singleline bound to patch_output_folder
patch_output_folder_edit(text) ==
    /\ pc = "patch_output_folder_edit"
    /\ pc' = "patch_output_folder_browse"
    /\ patch_output_folder' = text
    /\ UNCHANGED <<patch_folder, state_message, worker_rx, needs_repaint,
                   repaint_requested, generate_clicked,
                   message_received, triggers, threads, channels>>

\* PatchConfigApp::browse_patch_output_folder_button, the last step of update()
browse_patch_output_folder_button(clicked, pick) ==
    /\ pc = "patch_output_folder_browse"
    /\ pc' = "check_config_worker"
    /\ UNCHANGED <<patch_folder, worker_rx, repaint_requested, generate_clicked,
                   message_received, triggers,
                   threads, channels>>
    /\ IF ~clicked \/ ~pick.picked
       THEN UNCHANGED <<patch_output_folder, state_message, needs_repaint>>
       ELSE IF ~pick.utf8
            THEN /\ set_message("Selected path could not be converted to a string.")
                 /\ UNCHANGED patch_output_folder
            ELSE /\ patch_output_folder' = pick.path_str
                 /\ UNCHANGED <<state_message, needs_repaint>>

-----------------------------------------------------------------------------
(* The worker thread: the closure passed to thread::spawn *)

\* generate_config(input_dir, output_dir) returns; its arguments were moved into it
worker_generate(t, result) ==
    /\ threads[t].pc = "generate"
    /\ threads' = [threads EXCEPT ![t] =
            [@ EXCEPT !.pc = "send", !.result = result,
                      !.input_dir = "", !.output_dir = ""]]
    /\ UNCHANGED <<app, pc, repaint_requested, generate_clicked,
                   message_received, triggers, channels>>

\* generate_config panics: the thread unwinds and its Sender is dropped unused
worker_panic(t) ==
    /\ threads[t].pc = "generate"
    /\ threads' = [threads EXCEPT ![t] =
            [@ EXCEPT !.pc = "panicked", !.input_dir = "", !.output_dir = ""]]
    /\ channels' = [channels EXCEPT ![threads[t].tx] = DropTx(@)]
    /\ UNCHANGED <<app, pc, repaint_requested, generate_clicked,
                   message_received, triggers>>

\* Variant: the error of generate_config is ignored.
WorkerMessage_ignores_error(result) == Complete

\* the message the closure builds from the result of generate_config
WorkerMessage(result) ==
    IF result.ok THEN Complete ELSE Error(result.why)

\* Variant: send(message).unwrap(): a failed send panics the thread.
worker_send_unwrap(t) ==
    /\ threads[t].pc = "send"
    /\ LET tx == threads[t].tx
           message == WorkerMessage(threads[t].result)
       IN  /\ channels' = [channels EXCEPT ![tx] =
                IF SendOk(@) THEN DropTx(Sent(@, message)) ELSE DropTx(@)]
           /\ threads' = [threads EXCEPT ![t] =
                [@ EXCEPT !.pc = IF SendOk(channels[tx]) THEN "done" ELSE "panicked",
                          !.result = NoValue]]
    /\ UNCHANGED <<app, pc, repaint_requested, generate_clicked,
                   message_received, triggers>>

\* Variant: the worker writes the status of the application itself.
worker_send_sets_status(t) ==
    /\ threads[t].pc = "send"
    /\ LET tx == threads[t].tx
           message == WorkerMessage(threads[t].result)
       IN  channels' = [channels EXCEPT ![tx] =
                IF SendOk(@) THEN DropTx(Sent(@, message)) ELSE DropTx(@)]
    /\ threads' = [threads EXCEPT ![t] = [@ EXCEPT !.pc = "done", !.result = NoValue]]
    /\ set_message("Finished!")
    /\ UNCHANGED <<patch_folder, patch_output_folder, worker_rx, pc,
                   repaint_requested, generate_clicked,
                   message_received, triggers>>

\* Variant: the message is sent twice.
worker_send_twice(t) ==
    /\ threads[t].pc = "send"
    /\ LET tx == threads[t].tx
           message == WorkerMessage(threads[t].result)
       IN  channels' = [channels EXCEPT ![tx] =
                IF SendOk(@) THEN DropTx(Sent(Sent(@, message), message)) ELSE DropTx(@)]
    /\ threads' = [threads EXCEPT ![t] = [@ EXCEPT !.pc = "done", !.result = NoValue]]
    /\ UNCHANGED <<app, pc, repaint_requested, generate_clicked,
                   message_received, triggers>>

\* the closure sends its message (a failed send is only printed) and returns,
\* which drops the Sender
worker_send(t) ==
    /\ threads[t].pc = "send"
    /\ LET tx == threads[t].tx
           message == WorkerMessage(threads[t].result)
       IN  channels' = [channels EXCEPT ![tx] =
                IF SendOk(@) THEN DropTx(Sent(@, message)) ELSE DropTx(@)]
    /\ threads' = [threads EXCEPT ![t] = [@ EXCEPT !.pc = "done", !.result = NoValue]]
    /\ UNCHANGED <<app, pc, repaint_requested, generate_clicked,
                   message_received, triggers>>

-----------------------------------------------------------------------------
(* main *)

\* The window is closed between two calls of update(): eframe::run_native is
\* over and the PatchConfigApp it owned is dropped, its Receiver with it.
\* Worker threads still running go on until the process ends.
drop_app ==
    /\ pc = "check_config_worker"
    /\ pc' = "closed"
    /\ channels' = IF worker_rx = None THEN channels
                   ELSE [channels EXCEPT ![worker_rx] = DropRx(@)]
    /\ UNCHANGED <<app, repaint_requested, generate_clicked, message_received,
                   triggers, threads>>

-----------------------------------------------------------------------------
(* Specifications *)

\* one step of eframe::App::update on the GUI thread
Update ==
    \/ check_config_worker
    \/ repaint
    \/ \E clicked \in BOOLEAN :
          /\ (clicked /\ worker_rx = None) => Len(threads) < MaxTasks
          /\ generate_button(clicked)
    \/ \E text \in FolderInputs : patch_folder_edit(text)
    \/ \E clicked \in BOOLEAN, pick \in PickFolder(FolderInputs) :
          browse_patch_folder_button(clicked, pick)
    \/ \E text \in OutputFolderInputs : patch_output_folder_edit(text)
    \/ \E clicked \in BOOLEAN, pick \in PickFolder(OutputFolderInputs) :
          browse_patch_output_folder_button(clicked, pick)

\* one step of a worker thread
Worker ==
    \/ \E t \in 1..Len(threads), result \in GenerateConfigResults :
          worker_generate(t, result)
    \/ \E t \in 1..Len(threads) : worker_panic(t)
    \/ \E t \in 1..Len(threads) : worker_send(t)

Next == Update \/ Worker \/ drop_app

Spec == Init /\ [][Next]_vars

\* the application while its window stays open
Open == Update \/ Worker

\* The window stays open, the GUI keeps ticking and a worker thread that can
\* take a step eventually takes one (generate_config returns or panics; the
\* closure runs on).
FairSpec == Init /\ [][Open]_vars /\ WF_vars(Update) /\ WF_vars(Worker)

-----------------------------------------------------------------------------
(* Vocabulary of the properties *)

Threads == 1..Len(threads)
Channels == 1..Len(channels)

\* a worker thread that has been spawned and has not yet returned or unwound
Live(t) == threads[t].pc \in {"generate", "send"}

\* the step of update() that runs check_config_worker (the poll)
Polls == pc = "check_config_worker" /\ pc' = "repaint"

\* the step of update() that runs generate_button, with or without a click
GenerateStep == pc = "generate_button" /\ pc' = "patch_folder_edit"

\* a user trigger: generate_button runs and the button reports a click
Trigger == GenerateStep /\ generate_clicked'

\* a task is outstanding and its outcome is waiting in the channel
OutcomeReady == worker_rx # None /\ Len(channels[worker_rx].queue) > 0

\* a task is outstanding and nothing has been sent yet
OutcomePending == worker_rx # None /\ channels[worker_rx].sent = 0

-----------------------------------------------------------------------------
(* C1 *)

\* C1 (single-flight): in every state at most one worker thread is live, and
\* no step taken while worker_rx is present (a trigger in particular) spawns
\* a thread or creates a channel.
C1_SingleFlight ==
    /\ [](Cardinality({t \in Threads : Live(t)}) <= 1)
    /\ [][worker_rx # None =>
            /\ Len(threads') = Len(threads)
            /\ Len(channels') = Len(channels)]_vars

\* a trigger was issued while the worker was still running the operation
C1_Witness ==
    /\ generate_clicked
    /\ pc = "patch_folder_edit"
    /\ state_message = "Generation already in progress."
    /\ \E t \in Threads : threads[t].pc = "generate" /\ threads[t].tx = worker_rx

-----------------------------------------------------------------------------
(* C2 *)

\* C2 (every started task is eventually reported, also when the worker dies):
\* whenever worker_rx is present it eventually becomes absent again.
C2_EventuallyIdle == (worker_rx # None) ~> (worker_rx = None)

-----------------------------------------------------------------------------
(* C3 *)

\* C3 (eventual termination for an operation that returns): a poll that
\* finds the outcome in the channel takes it, drops the Receiver and leaves
\* worker_rx absent; and once generate_config has returned in a worker,
\* worker_rx eventually becomes absent.
C3_ReturnedTaskIsDrained ==
    /\ [][(Polls /\ OutcomeReady) =>
            /\ worker_rx' = None
            /\ channels'[worker_rx].received = channels[worker_rx].received + 1
            /\ ~channels'[worker_rx].rx_alive]_vars
    /\ (\E t \in Threads : threads[t].pc = "send") ~> (worker_rx = None)
    /\ OutcomeReady ~> (worker_rx = None)

\* the outcome of a task was drained and the runner is idle again
C3_Witness ==
    /\ worker_rx = None
    /\ pc = "repaint"
    /\ \E c \in Channels : channels[c].received = 1 /\ ~channels[c].rx_alive
    /\ \A t \in Threads : threads[t].pc = "done"

-----------------------------------------------------------------------------
(* C4 *)

\* C4 (outcome fidelity): the worker, its Receiver alive, sends Complete
\* exactly for Ok and Error(E) for Err(E); the poll that takes Complete sets "Finished!", and
\* the poll that takes Error(E) sets a message that is not "Finished!",
\* contains the text of E and contains the text of no other error.
C4_OutcomeFidelity ==
    /\ [][\A t \in Threads :
            (threads[t].pc = "send" /\ threads'[t].pc = "done"
                /\ channels[threads[t].tx].rx_alive) =>
                LET r == threads[t].result
                    q == channels'[threads[t].tx].queue
                IN  /\ Len(q) = 1
                    /\ r = Ok => q[1] = [tag |-> "Complete"]
                    /\ \A e \in PatchConfigError :
                          r = Err(e) => q[1] = [tag |-> "Error", why |-> e]]_vars
    /\ [][(Polls /\ OutcomeReady) =>
            LET m == Head(channels[worker_rx].queue)
            IN  /\ m.tag = "Complete" => state_message' = "Finished!"
                /\ m.tag = "Error" =>
                      /\ state_message' # "Finished!"
                      /\ Contains(state_message', to_string(m.why))
                      /\ \A e \in PatchConfigError \ {m.why} :
                            ~Contains(state_message', to_string(e))]_vars

\* a failure was reported with its detail
C4_Witness ==
    /\ worker_rx = None
    /\ pc = "repaint"
    /\ state_message = "Failled to generate output: disk full"

-----------------------------------------------------------------------------
(* C5 *)

\* C5 (exactly-once handoff): on every channel at most one message is sent
\* and at most one received, never more received than sent; every channel
\* has exactly one thread holding its Sender; a channel whose message was
\* received has lost its Receiver; and whenever worker_rx changes to a
\* channel, that channel is a new one with nothing sent on it.
C5_ExactlyOnce ==
    /\ [](\A c \in Channels :
            /\ channels[c].sent <= 1
            /\ channels[c].received <= channels[c].sent
            /\ Len(channels[c].queue) <= 1
            /\ Cardinality({t \in Threads : threads[t].tx = c}) = 1
            /\ channels[c].received = 1 => (~channels[c].rx_alive /\ worker_rx # c))
    /\ [][(worker_rx' # worker_rx /\ worker_rx' # None) =>
            /\ worker_rx' \notin Channels
            /\ channels'[worker_rx'] = NewChannel]_vars

\* two tasks ran, each on its own channel, each handed off once
C5_Witness ==
    /\ Len(channels) = 2
    /\ \A c \in Channels : channels[c].sent = 1 /\ channels[c].received = 1

-----------------------------------------------------------------------------
(* C6 *)

\* C6 as stated (trigger while Running): no task is started, the runner is
\* unchanged, and the status message becoming "Generation already in
\* progress." is the only change to the application's fields.
C6_OnlyStatusChanges ==
    [][(Trigger /\ worker_rx # None) =>
            /\ state_message' = "Generation already in progress."
            /\ UNCHANGED <<worker_rx, threads, channels>>
            /\ UNCHANGED <<patch_folder, patch_output_folder, needs_repaint>>]_vars

\* C6 (amended): a trigger while worker_rx is present starts no task and
\* leaves worker_rx, the threads, the channels and the folder fields
\* unchanged; it sets the status message to "Generation already in
\* progress." and raises needs_repaint.
C6_RejectedTrigger ==
    [][(Trigger /\ worker_rx # None) =>
            /\ state_message' = "Generation already in progress."
            /\ needs_repaint'
            /\ UNCHANGED <<worker_rx, threads, channels>>
            /\ UNCHANGED <<patch_folder, patch_output_folder,
                           repaint_requested>>]_vars

\* a trigger was rejected while a task was outstanding
C6_Witness ==
    /\ generate_clicked
    /\ pc = "patch_folder_edit"
    /\ worker_rx # None
    /\ state_message = "Generation already in progress."
    /\ needs_repaint

-----------------------------------------------------------------------------
(* C7 *)

\* C7 (trigger while Idle): a trigger with worker_rx absent spawns exactly
\* one thread, creates one new channel whose Sender that thread holds,
\* stores that channel in worker_rx and sets the status to "Working...".
C7_AcceptedTrigger ==
    [][(Trigger /\ worker_rx = None) =>
            /\ Len(threads') = Len(threads) + 1
            /\ Len(channels') = Len(channels) + 1
            /\ \A t \in Threads : threads'[t] = threads[t]
            /\ \A c \in Channels : channels'[c] = channels[c]
            /\ threads'[Len(threads')].pc = "generate"
            /\ threads'[Len(threads')].tx = Len(channels')
            /\ worker_rx' = Len(channels')
            /\ channels'[worker_rx'].rx_alive /\ channels'[worker_rx'].tx_alive
            /\ state_message' = "Working..."]_vars

\* a trigger was accepted: the new task is outstanding
C7_Witness ==
    /\ generate_clicked
    /\ pc = "patch_folder_edit"
    /\ worker_rx = Len(channels)
    /\ Len(threads) = 2
    /\ threads[2].pc = "generate"
    /\ state_message = "Working..."

-----------------------------------------------------------------------------
(* C8 *)

\* C8 (idle poll): a poll with worker_rx absent changes neither the status
\* message, worker_rx, needs_repaint, the folder fields, the threads nor the
\* channels.
C8_IdlePollIsNoOp ==
    [][(Polls /\ worker_rx = None) =>
            UNCHANGED <<state_message, worker_rx, needs_repaint, patch_folder,
                        patch_output_folder, threads, channels>>]_vars

\* an idle poll has just run over a status left by an earlier task
C8_Witness ==
    /\ pc = "repaint"
    /\ worker_rx = None
    /\ ~needs_repaint
    /\ state_message = "Finished!"

-----------------------------------------------------------------------------
(* C9 *)

\* C9 (non-blocking poll): while worker_rx is present and nothing was sent, the
\* poll step can always be taken (it does not wait for the worker), and
\* taking it leaves worker_rx, the status message, needs_repaint and the
\* channels unchanged.
C9_PollWhileRunning ==
    /\ []((pc = "check_config_worker" /\ OutcomePending) => ENABLED check_config_worker)
    /\ [][(Polls /\ OutcomePending) =>
            UNCHANGED <<worker_rx, state_message, needs_repaint, channels,
                        threads>>]_vars

\* a poll has just run while the worker was still inside generate_config
C9_Witness ==
    /\ pc = "repaint"
    /\ worker_rx # None
    /\ state_message = "Working..."
    /\ \E t \in Threads : threads[t].pc = "generate" /\ threads[t].tx = worker_rx

-----------------------------------------------------------------------------
(* C10 *)

\* C10 (ordering): whenever worker_rx is present it is the channel of the
\* most recently spawned thread and of no earlier one, a message is only
\* ever buffered in that channel, and so every message a poll takes was
\* sent by the most recently spawned thread.
C10_LatestTaskOnly ==
    /\ [](worker_rx # None =>
            /\ Len(threads) > 0
            /\ threads[Len(threads)].tx = worker_rx
            /\ \A t \in Threads : t < Len(threads) => threads[t].tx # worker_rx)
    /\ [](\A c \in Channels : Len(channels[c].queue) > 0 => c = worker_rx)
    /\ [][(Polls /\ worker_rx # None /\ worker_rx' = None) =>
            /\ threads[Len(threads)].tx = worker_rx
            /\ threads[Len(threads)].pc = "done"]_vars

\* the outcome of the second task was observed after that of the first
C10_Witness ==
    /\ Len(threads) = 2
    /\ worker_rx = None
    /\ channels[1].received = 1
    /\ channels[2].received = 1

-----------------------------------------------------------------------------
(* C11 *)

\* the status messages of the task runner: blank, working, finished, a
\* failure with the text of an error, the already-in-progress advisory
RunnerStatus(m) ==
    \/ m = ""
    \/ m = "Working..."
    \/ m = "Finished!"
    \/ m = "Generation already in progress."
    \/ \E e \in PatchConfigError :
          m = "Failled to generate output: " \o to_string(e)

\* C11 as stated (status domain): in every state the status message is
\* blank, the working message, "Finished!", a failure message with an error
\* detail, or the already-in-progress advisory.
C11_RunnerStatusOnly == RunnerStatus(state_message)

\* C11 (amended): in every state the status message is one of the five
\* runner messages or the notice "Selected path could not be converted to a
\* string." set by the two Browse buttons.
C11_StatusDomain ==
    \/ RunnerStatus(state_message)
    \/ state_message = "Selected path could not be converted to a string."

\* a Browse button has put its notice in the status while a task is running
C11_Witness ==
    /\ state_message = "Selected path could not be converted to a string."
    /\ worker_rx # None
    /\ needs_repaint

-----------------------------------------------------------------------------
(* C13 *)

\* C13 (producer-gone poll step): a poll that finds the channel of worker_rx
\* disconnected with nothing buffered clears worker_rx and reports a failure
\* in the status message.
C13_DisconnectedPollRecovers ==
    [][(Polls /\ worker_rx # None
              /\ TryRecv(channels[worker_rx]) = "Disconnected") =>
            /\ worker_rx' = None
            /\ state_message' # state_message]_vars

-----------------------------------------------------------------------------
(* C14 *)

\* a step of a worker thread: an existing thread moves on
WorkerStep == \E t \in Threads : threads'[t].pc # threads[t].pc

\* C14 (the worker never touches consumer data): a step of a worker thread
\* changes no field of PatchConfigApp and no position of the GUI thread; the
\* outcome reaches the status message only in a poll step of update(), which
\* is also the only step that clears worker_rx.
C14_WorkerLeavesAppAlone ==
    /\ [][WorkerStep =>
            UNCHANGED <<patch_folder, patch_output_folder, state_message,
                        worker_rx, needs_repaint, pc, repaint_requested,
                        generate_clicked, message_received, triggers>>]_vars
    /\ [][(worker_rx # None /\ worker_rx' = None) => (Polls /\ OutcomeReady)]_vars
    /\ [][(state_message' # state_message
            /\ (state_message' = "Finished!"
                \/ \E e \in PatchConfigError : Contains(state_message', to_string(e))))
          => (Polls /\ OutcomeReady)]_vars

\* the worker has sent its outcome and returned, and the status still says
\* "Working..." until the next poll
C14_Witness ==
    /\ worker_rx # None
    /\ Len(channels[worker_rx].queue) = 1
    /\ state_message = "Working..."
    /\ \E t \in Threads : threads[t].tx = worker_rx /\ threads[t].pc = "done"

-----------------------------------------------------------------------------
(* C15 *)

\* the thread spawned by the step being taken
NewThread == threads'[Len(threads')]

\* C15 (input snapshot): the thread spawned by an accepted trigger holds the
\* value patch_folder had at the trigger and a path under the value
\* patch_output_folder had at the trigger; and as long as a thread is inside
\* generate_config no step changes the two paths it holds, whatever happens
\* to the two fields.
C15_InputSnapshot ==
    /\ [][(Trigger /\ worker_rx = None) =>
            /\ NewThread.input_dir = patch_folder
            /\ SubSeq(Components(NewThread.output_dir), 1,
                      Len(Components(patch_output_folder)))
                  = Components(patch_output_folder)]_vars
    /\ [][\A t \in Threads :
            (threads[t].pc = "generate" /\ threads'[t].pc = "generate") =>
                /\ threads'[t].input_dir = threads[t].input_dir
                /\ threads'[t].output_dir = threads[t].output_dir]_vars

\* both fields were changed after the trigger; the running task still holds
\* the paths made from the old values
C15_Witness ==
    /\ worker_rx # None
    /\ patch_folder = "in"
    /\ patch_output_folder = "out"
    /\ \E t \in Threads :
          /\ threads[t].pc = "generate"
          /\ threads[t].input_dir = ""
          /\ threads[t].output_dir = "aeco-patch"

-----------------------------------------------------------------------------
(* C17 *)

\* C17 (path derivation): the thread spawned by an accepted trigger gets
\* input_dir equal to patch_folder, and an output_dir that is absolute
\* exactly if patch_output_folder is, whose components are those of
\* patch_output_folder followed by the one component "aeco-patch".
C17_PathDerivation ==
    [][(Trigger /\ worker_rx = None) =>
            /\ NewThread.input_dir = patch_folder
            /\ IsAbsolute(NewThread.output_dir) = IsAbsolute(patch_output_folder)
            /\ Components(NewThread.output_dir)
                  = Components(patch_output_folder) \o <<"aeco-patch">>
            /\ Len(Components(NewThread.output_dir))
                  = Len(Components(patch_output_folder)) + 1]_vars

\* a task was started from a folder with a trailing separator
C17_Witness ==
    /\ generate_clicked
    /\ pc = "patch_folder_edit"
    /\ patch_folder = "in"
    /\ patch_output_folder = "out/"
    /\ \E t \in Threads :
          /\ threads[t].pc = "generate"
          /\ threads[t].input_dir = "in"
          /\ threads[t].output_dir = "out/aeco-patch"

-----------------------------------------------------------------------------
(* C18 *)

\* C18 (status/runner consistency): in every state, a status of "Working..."
\* comes with worker_rx present, and a status of "Finished!" or of a failure
\* message comes with worker_rx absent.
C18_StatusMatchesRunner ==
    /\ state_message = "Working..." => worker_rx # None
    /\ state_message = "Finished!" => worker_rx = None
    /\ (\E e \in PatchConfigError :
            state_message = "Failled to generate output: " \o to_string(e))
          => worker_rx = None

\* a second task is outstanding under "Working..." after the outcome of the
\* first one was taken
C18_Witness ==
    /\ state_message = "Working..."
    /\ worker_rx = 2
    /\ channels[1].received = 1
    /\ threads[2].pc = "send"

-----------------------------------------------------------------------------
(* C20 *)

\* the step of update() that looks at needs_repaint
RepaintStep == pc = "repaint" /\ pc' = "generate_button"

\* C20 (repaint handshake): every step that changes the status message
\* leaves needs_repaint raised; the flag check of update() requests a repaint
\* exactly if the flag is raised and leaves it cleared; the flag is lowered
\* by no other step; and a raised flag is always followed by a repaint
\* request.
C20_RepaintHandshake ==
    /\ [][state_message' # state_message => needs_repaint']_vars
    /\ [][RepaintStep =>
            /\ repaint_requested' = needs_repaint
            /\ ~needs_repaint']_vars
    /\ [][(needs_repaint /\ ~needs_repaint') => RepaintStep]_vars
    /\ [][(~repaint_requested /\ repaint_requested') =>
            (RepaintStep /\ needs_repaint)]_vars
    /\ needs_repaint ~> (repaint_requested /\ ~needs_repaint)

\* the tick that drained the outcome has requested its repaint
C20_Witness ==
    /\ pc = "generate_button"
    /\ repaint_requested
    /\ ~needs_repaint
    /\ state_message = "Finished!"

-----------------------------------------------------------------------------
(* C12 *)

\* C12 (no automatic retry): the threads spawned never outnumber the clicks
\* on Generate; the number of threads changes only in a trigger taken while
\* worker_rx is absent, and then by one; a poll, whatever it takes from the
\* channel, spawns no thread and creates no channel.
C12_NoAutomaticRetry ==
    /\ [](Len(threads) <= triggers)
    /\ [][Len(threads') # Len(threads) =>
            /\ Trigger
            /\ worker_rx = None
            /\ Len(threads') = Len(threads) + 1]_vars
    /\ [][Polls =>
            /\ Len(threads') = Len(threads)
            /\ Len(channels') = Len(channels)]_vars

\* a failure was reported by a poll and nothing was started in its place
C12_Witness ==
    /\ pc = "repaint"
    /\ message_received
    /\ state_message = "Failled to generate output: not a directory"
    /\ worker_rx = None
    /\ Len(threads) = 1
    /\ threads[1].pc = "done"

-----------------------------------------------------------------------------
(* C16 *)

\* C16 (send to a dropped Receiver): a worker that is about to send can
\* always take its step, and when the Receiver of its channel is gone the
\* step counts no message as sent, buffers nothing, ends the thread normally
\* ("done", not "panicked") and changes no field of PatchConfigApp.
C16_FailedSendIsLocal ==
    /\ [](\A t \in Threads : threads[t].pc = "send" => ENABLED worker_send(t))
    /\ [][\A t \in Threads :
            (/\ threads[t].pc = "send"
             /\ threads'[t].pc # "send"
             /\ ~channels[threads[t].tx].rx_alive) =>
                /\ threads'[t].pc = "done"
                /\ channels'[threads[t].tx].sent = channels[threads[t].tx].sent
                /\ channels'[threads[t].tx].queue = <<>>
                /\ ~channels'[threads[t].tx].tx_alive
                /\ UNCHANGED <<patch_folder, patch_output_folder, state_message,
                               worker_rx, needs_repaint>>]_vars

\* the window was closed while the worker was running; its send failed and
\* the thread returned
C16_Witness ==
    /\ pc = "closed"
    /\ \E t \in Threads :
          /\ threads[t].pc = "done"
          /\ channels[threads[t].tx].sent = 0
          /\ ~channels[threads[t].tx].rx_alive
          /\ ~channels[threads[t].tx].tx_alive

-----------------------------------------------------------------------------
(* C19 *)

====
